---- MODULE Spec2Model ----
(***************************************************************************)
(* A model of two components of the repository:                            *)
(*   - AccountManager (libraries/shared/src/AccountManager.cpp): the OAuth *)
(*     token cache keyed by root URL, the authenticated requests and their *)
(*     pending callbacks;                                                  *)
(*   - NodePermissions (libraries/networking/src/NodePermissions.h): the   *)
(*     identity-tagged record of six capability flags.                     *)
(* Strings are sequences of one-character strings, so that the settings    *)
(* key derivation (QString::replace) is computed rather than assumed.      *)
(***************************************************************************)
EXTENDS Integers, Sequences, FiniteSets, TLC

\* ------------------------------------------------------------------ bounds

\* The clock runs from 0 to MaxTime.
MaxTime == 1
\* Reply objects are told apart by the addresses 1..MaxReplies.
MaxReplies == 1

\* ----------------------------------------------------------------- strings

RECURSIVE StartsWith(_, _)
\* s begins with the characters of p
StartsWith(s, p) ==
    IF p = <<>> THEN TRUE
    ELSE IF s = <<>> THEN FALSE
    ELSE Head(s) = Head(p) /\ StartsWith(Tail(s), Tail(p))

RECURSIVE Drop(_, _)
Drop(s, n) == IF n = 0 \/ s = <<>> THEN s ELSE Drop(Tail(s), n - 1)

RECURSIVE Replace(_, _, _)
\* QString::replace(before, after): every occurrence, left to right,
\* without rescanning the inserted text
Replace(s, before, after) ==
    IF s = <<>> THEN <<>>
    ELSE IF StartsWith(s, before)
         THEN after \o Replace(Drop(s, Len(before)), before, after)
         ELSE <<Head(s)>> \o Replace(Tail(s), before, after)

SlashSlash == <<"/", "/">>
SlashSlashWord == <<"s", "l", "a", "s", "h", "s", "l", "a", "s", "h">>

\* -------------------------------------------------------------------- URLs

\* A QUrl: host and path (scheme fixed); the default-constructed QUrl is empty.
EmptyURL == [host |-> <<>>, path |-> <<>>]
HostA == <<"a">>
HostB == <<"b">>
NoPath == <<>>
SomePath == <<"/", "p">>
OAuthPath == <<"/", "o", "a", "u", "t", "h", "/", "t", "o", "k", "e", "n">>
RequestPath == <<"/", "x">>

\* The root URLs a caller hands to setRootURL.
RootURLs == { [host |-> HostA, path |-> NoPath],
              [host |-> HostA, path |-> SomePath],
              [host |-> HostB, path |-> NoPath] }

\* QUrl::setPath
SetPath(url, path) == [url EXCEPT !.path = path]

\* QUrl::toString
UrlToString(url) ==
    IF url = EmptyURL THEN <<>>
    ELSE <<"h", ":", "/", "/">> \o url.host \o url.path

\* ---------------------------------------------------------------- accounts

EmptyToken == <<>>
TokenT == <<"t">>
Tokens == { EmptyToken, TokenT }
\* the token a previous run was granted
TokenS == <<"s">>

\* A default-constructed DataServerAccountInfo: an empty token.
DefaultAccountInfo == [token |-> EmptyToken, expiry |-> 0]

\* OAuthAccessToken::isExpired at time t
IsExpired(info, t) == info.expiry <= t

\* DataServerAccountInfo(jsonObject) built at time t
FreshAccountInfo(body, t) == [token |-> body.access_token, expiry |-> t + body.expires_in]

\* QMap::value(key): the stored value, or a default-constructed one
MapValue(map, key, default) == IF key \in DOMAIN map THEN map[key] ELSE default

\* QMap::insert(key, value): adds or replaces
MapInsert(map, key, value) ==
    [k \in DOMAIN map \cup {key} |-> IF k = key THEN value ELSE map[k]]

\* QMap::remove(key)
MapRemove(map, key) == [k \in DOMAIN map \ {key} |-> map[k]]

EmptyMap == [k \in {} |-> 0]

\* the settings key of a root URL (requestFinished)
SettingsKey(url) == Replace(UrlToString(url), SlashSlash, SlashSlashWord)

\* ------------------------------------------------------------------ state

VARIABLES
    rootURL,           \* _rootURL
    username,          \* _username
    accounts,          \* _accounts: URL -> account info
    pendingCallbacks,  \* _pendingCallbackMap: reply -> callback params
    settings,          \* QSettings group "accounts": key -> account info
    replies,           \* the QNetworkReply objects that await their signals
    now,               \* the clock
    lastOp,            \* the operation that made the last step
    out,               \* signals, callbacks and network sends of the last step
    ret,               \* the value returned by the last step
    perms,             \* NodePermissions objects
    permOp             \* the last operation on permissions

amVars == <<rootURL, username, accounts, pendingCallbacks, settings, replies,
            now, lastOp, out, ret>>
permVars == <<perms, permOp>>
vars == <<rootURL, username, accounts, pendingCallbacks, settings, replies,
          now, lastOp, out, ret, perms, permOp>>

\* ------------------------------------------------------ values and helpers

Schema == <<"h", ":", "/", "/">>

RECURSIVE UpToSlash(_)
\* the characters of s before its first "/"
UpToSlash(s) ==
    IF s = <<>> \/ Head(s) = "/" THEN <<>> ELSE <<Head(s)>> \o UpToSlash(Tail(s))

\* QUrl(string): the authority up to the first "/", the rest is the path
ParseURL(s) ==
    IF s = <<>> THEN EmptyURL
    ELSE IF StartsWith(s, Schema)
         THEN LET rest == Drop(s, Len(Schema))
                  host == UpToSlash(rest)
              IN  [host |-> host, path |-> Drop(rest, Len(host))]
         ELSE [host |-> <<>>, path |-> s]

\* the URL a settings key stands for (the constructor)
KeyURL(key) == ParseURL(Replace(key, SlashSlashWord, SlashSlash))

\* QVariant::fromValue(accountInfo) written through the stream operators
Serialize(info) == <<info.token, info.expiry>>
\* QVariant::value<DataServerAccountInfo>()
Deserialize(v) == [token |-> v[1], expiry |-> v[2]]

\* The constructor's loop over settings.allKeys(): no two keys the manager
\* writes stand for the same URL, so the order of the loop does not matter.
LoadAccounts(stored) ==
    LET urls == { KeyURL(k) : k \in DOMAIN stored }
    IN  [u \in urls |->
            Deserialize(stored[CHOOSE k \in DOMAIN stored : KeyURL(k) = u])]

\* JSONCallbackParameters: which of the two receivers are set
CallbackSpecs == [json : BOOLEAN, error : BOOLEAN]
\* a default-constructed JSONCallbackParameters: both receivers NULL
DefaultCallbackParams == [json |-> FALSE, error |-> FALSE]
\* JSONCallbackParameters::isEmpty
IsEmpty(cb) == ~cb.json /\ ~cb.error

\* QNetworkAccessManager::Operation
Operations == { "GET", "POST", "PUT" }

NoReply == 0
\* the addresses of the replies in flight
ReplyIds == DOMAIN replies
\* A new reply gets an address that no reply in flight has and that is no key of
\* the pending callbacks (a finished reply is never deleted, so its address is
\* not handed out again while the map still refers to it).
FreeIds == (1 .. MaxReplies) \ (DOMAIN replies \cup DOMAIN pendingCallbacks)
CanCreateReply == FreeIds # {}
NewReplyId == CHOOSE r \in FreeIds : \A q \in FreeIds : r <= q

\* what a receiver finds when a signal reaches it: nothing recorded
NotSeen == <<>>
\* QSettings::value(key) of a key that was never written: an invalid QVariant
NoValue == <<>>
\* one signal, callback invocation or network send
Event(sig, url, reply, token) ==
    [sig |-> sig, url |-> url, reply |-> reply, token |-> token,
     seen |-> NotSeen]
\* emit receivedAccessToken(rootURL), delivered by direct calls of the slots:
\* held is the account that accounts holds for the URL, saved the value that
\* the settings hold under its key, when the signal is emitted
Notification(url, reply, accountsThen, settingsThen, key) ==
    [Event("receivedAccessToken", url, reply, EmptyToken) EXCEPT
        !.seen = [held |-> MapValue(accountsThen, url, DefaultAccountInfo),
                  saved |-> MapValue(settingsThen, key, NoValue)]]
\* the JSON object of a token response: the fields it has, and their values
\* the lifetimes (expires_in) a server grants
ExpiresInValues == { 1 }
TokenFields == { "error", "access_token", "expires_in", "token_type" }
RequiredFields == { "access_token", "expires_in", "token_type" }
\* the response bodies: those without a usable token (the empty one of a
\* network failure, those with an error field, those that lack one or two of
\* the required fields) and the complete ones, which carry a non-empty token
Bodies ==
    { [fields |-> f, access_token |-> EmptyToken, expires_in |-> 1] :
        f \in { {}, { "error" }, TokenFields }
              \cup { RequiredFields \ { x } : x \in RequiredFields }
              \cup { { x } : x \in RequiredFields } }
    \cup
    { [fields |-> TokenFields \ {"error"}, access_token |-> t, expires_in |-> e] :
        t \in Tokens \ { EmptyToken }, e \in ExpiresInValues }
EmptyBody == [fields |-> {}, access_token |-> EmptyToken, expires_in |-> 1]

\* the operation of a step: its name, the URL and reply it is about, whether
\* it went through and, for a token response, the root URL its request was
\* made under
Op(op, url, reply, ok) ==
    [op |-> op, url |-> url, reply |-> reply, ok |-> ok, root |-> EmptyURL]

\* what a previous run of the program may have left in the settings: nothing,
\* or one account, whose token may be the empty one
InitialSettings ==
    { EmptyMap } \cup
    { [k \in { SettingsKey([host |-> HostA, path |-> NoPath]) } |->
          Serialize([token |-> t, expiry |-> 1])] : t \in { EmptyToken, TokenS } }

\* ------------------------------------------------------------------- Init

\* the six capability flags of a NodePermissions
Flags == { "canConnectToDomain", "canAdjustLocks", "canRezPermanentEntities",
           "canRezTemporaryEntities", "canWriteToAssetServer",
           "canConnectPastMaxCapacity" }

\* the member initializers: the defaults of a newly constructed object
MemberDefaults(id) ==
    [id |-> id, canConnectToDomain |-> TRUE, canAdjustLocks |-> FALSE,
     canRezPermanentEntities |-> FALSE, canRezTemporaryEntities |-> FALSE,
     canWriteToAssetServer |-> FALSE, canConnectPastMaxCapacity |-> FALSE]

\* the two permission objects of the model, held by shared pointers
PermObjects == { 1, 2 }
\* QUuid::createUuid().toString(): a different identifier for each object
Uuid(obj) == IF obj = 1 THEN "{uuid-1}" ELSE "{uuid-2}"
\* the names given to NodePermissions(name)
Names == { "localhost" }

\* NodePermissions()
NodePermissionsDefault(obj) == MemberDefaults(Uuid(obj))
\* NodePermissions(const QString& name)
NodePermissionsNamed(name) == MemberDefaults(name)

\* the keys of the persisted map
VariantKeys == { "permissions_id", "id_can_connect", "id_can_adjust_locks",
                 "id_can_rez", "id_can_rez_tmp", "id_can_write_to_asset_server",
                 "id_can_connect_past_max_capacity" }

\* QMap::operator[] then toString / toBool: a key the map lacks reads as the
\* empty string / false
VariantString(map, key) == IF key \in DOMAIN map THEN map[key] ELSE ""
VariantBool(map, key) == IF key \in DOMAIN map THEN map[key] ELSE FALSE

\* NodePermissions(QMap<QString, QVariant> perms)
NodePermissionsFromMap(map) ==
    [id |-> VariantString(map, "permissions_id"),
     canConnectToDomain |-> VariantBool(map, "id_can_connect"),
     canAdjustLocks |-> VariantBool(map, "id_can_adjust_locks"),
     canRezPermanentEntities |-> VariantBool(map, "id_can_rez"),
     canRezTemporaryEntities |-> VariantBool(map, "id_can_rez_tmp"),
     canWriteToAssetServer |-> VariantBool(map, "id_can_write_to_asset_server"),
     canConnectPastMaxCapacity |-> VariantBool(map, "id_can_connect_past_max_capacity")]

\* toVariant that writes the two rez flags under each other's key
toVariant_SwapsRez(p) ==
    [k \in VariantKeys |->
        CASE k = "permissions_id" -> p.id
          [] k = "id_can_connect" -> p.canConnectToDomain
          [] k = "id_can_adjust_locks" -> p.canAdjustLocks
          [] k = "id_can_rez" -> p.canRezTemporaryEntities
          [] k = "id_can_rez_tmp" -> p.canRezPermanentEntities
          [] k = "id_can_write_to_asset_server" -> p.canWriteToAssetServer
          [] k = "id_can_connect_past_max_capacity" -> p.canConnectPastMaxCapacity]

\* NodePermissions::toVariant
toVariant(p) ==
    [k \in VariantKeys |->
        CASE k = "permissions_id" -> p.id
          [] k = "id_can_connect" -> p.canConnectToDomain
          [] k = "id_can_adjust_locks" -> p.canAdjustLocks
          [] k = "id_can_rez" -> p.canRezPermanentEntities
          [] k = "id_can_rez_tmp" -> p.canRezTemporaryEntities
          [] k = "id_can_write_to_asset_server" -> p.canWriteToAssetServer
          [] k = "id_can_connect_past_max_capacity" -> p.canConnectPastMaxCapacity]

\* persisted maps handed to the constructor: complete ones, and ones that
\* lack keys
PersistedMaps ==
    { [k \in keys |-> IF k = "permissions_id" THEN name ELSE value] :
        keys \in { VariantKeys, { "permissions_id" }, { "id_can_rez" }, {} },
        name \in Names, value \in BOOLEAN }

\* an assignment to one of the public flag members
AssignFlag(p, flag, value) == [p EXCEPT ![flag] = value]

\* NodePermissions::getID
getID(p) == p.id

\* setAll that also clears the identifier
setAll_ClearsId(p, value) ==
    [id |-> "", canConnectToDomain |-> value, canAdjustLocks |-> value,
     canRezPermanentEntities |-> value, canRezTemporaryEntities |-> value,
     canWriteToAssetServer |-> value, canConnectPastMaxCapacity |-> value]

\* NodePermissions::setAll
setAll(p, value) ==
    [p EXCEPT !.canConnectToDomain = value, !.canAdjustLocks = value,
              !.canRezPermanentEntities = value, !.canRezTemporaryEntities = value,
              !.canWriteToAssetServer = value, !.canConnectPastMaxCapacity = value]

\* operator|= that assigns the flags of rhs
OrAssign_Assigns(lhs, rhs) ==
    [lhs EXCEPT !.canConnectToDomain = rhs.canConnectToDomain,
                !.canAdjustLocks = rhs.canAdjustLocks,
                !.canRezPermanentEntities = rhs.canRezPermanentEntities,
                !.canRezTemporaryEntities = rhs.canRezTemporaryEntities,
                !.canWriteToAssetServer = rhs.canWriteToAssetServer,
                !.canConnectPastMaxCapacity = rhs.canConnectPastMaxCapacity]

\* NodePermissions::operator|=(const NodePermissions& rhs): each flag becomes
\* the OR of the two, the identifier stays
OrAssign(lhs, rhs) ==
    [lhs EXCEPT !.canConnectToDomain = @ \/ rhs.canConnectToDomain,
                !.canAdjustLocks = @ \/ rhs.canAdjustLocks,
                !.canRezPermanentEntities = @ \/ rhs.canRezPermanentEntities,
                !.canRezTemporaryEntities = @ \/ rhs.canRezTemporaryEntities,
                !.canWriteToAssetServer = @ \/ rhs.canWriteToAssetServer,
                !.canConnectPastMaxCapacity = @ \/ rhs.canConnectPastMaxCapacity]

PermOp(op, lhs, rhs) == [op |-> op, lhs |-> lhs, rhs |-> rhs]

AccountManagerInit ==
    /\ rootURL = EmptyURL
    /\ username = <<>>
    /\ pendingCallbacks = EmptyMap
    /\ settings \in InitialSettings
    /\ accounts = LoadAccounts(settings)
    /\ replies = EmptyMap
    /\ now = 0
    /\ lastOp = Op("AccountManager", EmptyURL, NoReply, FALSE)
    /\ out = <<>>
    /\ ret = FALSE

PermissionsInit ==
    /\ perms = [obj \in PermObjects |-> NodePermissionsDefault(obj)]
    /\ permOp = PermOp("NodePermissions", 1, 1)

Init == AccountManagerInit /\ PermissionsInit

\* ------------------------------------------------- AccountManager actions

\* setRootURL that keeps the cached username on a change of URL
setRootURL_KeepsUsername(url) ==
    /\ IF rootURL # url
       THEN rootURL' = url /\ username' = username
       ELSE UNCHANGED <<rootURL, username>>
    /\ lastOp' = Op("setRootURL", url, NoReply, FALSE)
    /\ out' = <<>>
    /\ ret' = FALSE
    /\ UNCHANGED <<accounts, pendingCallbacks, settings, replies, now>>

\* setRootURL that forgets the pending callbacks on a change of URL
setRootURL_DropsPending(url) ==
    /\ IF rootURL # url
       THEN rootURL' = url /\ username' = <<>> /\ pendingCallbacks' = EmptyMap
       ELSE UNCHANGED <<rootURL, username, pendingCallbacks>>
    /\ lastOp' = Op("setRootURL", url, NoReply, FALSE)
    /\ out' = <<>>
    /\ ret' = FALSE
    /\ UNCHANGED <<accounts, settings, replies, now>>

setRootURL(url) ==
    /\ IF rootURL # url
       THEN rootURL' = url /\ username' = <<>>
       ELSE UNCHANGED <<rootURL, username>>
    /\ lastOp' = Op("setRootURL", url, NoReply, FALSE)
    /\ out' = <<>>
    /\ ret' = FALSE
    /\ UNCHANGED <<accounts, pendingCallbacks, settings, replies, now>>

Usernames == { <<>>, <<"u">> }

\* AccountManager::setUsername
setUsername(name) ==
    /\ username' = name
    /\ lastOp' = Op("setUsername", EmptyURL, NoReply, FALSE)
    /\ out' = <<>>
    /\ ret' = FALSE
    /\ UNCHANGED <<rootURL, accounts, pendingCallbacks, settings, replies, now>>

\* hasValidAccessToken without the test for an empty token
hasValidAccessToken_NoEmptyTest ==
    LET accountInfo == MapValue(accounts, rootURL, DefaultAccountInfo)
    IN  ~IsExpired(accountInfo, now)

\* hasValidAccessToken without the expiry test
hasValidAccessToken_NoExpiry ==
    LET accountInfo == MapValue(accounts, rootURL, DefaultAccountInfo)
    IN  accountInfo.token # EmptyToken

hasValidAccessToken ==
    LET accountInfo == MapValue(accounts, rootURL, DefaultAccountInfo)
    IN  IF accountInfo.token = EmptyToken \/ IsExpired(accountInfo, now)
        THEN FALSE
        ELSE TRUE

\* a call of hasValidAccessToken() that reads the map with operator[], which
\* inserts a default-constructed account for an unknown root URL
CallHasValidAccessToken_Inserts ==
    /\ ret' = hasValidAccessToken
    /\ accounts' = IF rootURL \in DOMAIN accounts
                   THEN accounts
                   ELSE MapInsert(accounts, rootURL, DefaultAccountInfo)
    /\ lastOp' = Op("hasValidAccessToken", rootURL, NoReply, FALSE)
    /\ out' = <<>>
    /\ UNCHANGED <<rootURL, username, pendingCallbacks, settings, replies, now>>

\* a call of hasValidAccessToken()
CallHasValidAccessToken ==
    /\ ret' = hasValidAccessToken
    /\ lastOp' = Op("hasValidAccessToken", rootURL, NoReply, FALSE)
    /\ out' = <<>>
    /\ UNCHANGED <<rootURL, username, accounts, pendingCallbacks, settings,
                   replies, now>>

\* checkAndSignalForAccessToken that raises the signal whatever the result
checkAndSignalForAccessToken_AlwaysSignals ==
    LET hasToken == hasValidAccessToken
    IN  /\ out' = <<Event("authenticationRequired", EmptyURL, NoReply, EmptyToken)>>
        /\ ret' = hasToken
        /\ lastOp' = Op("checkAndSignalForAccessToken", rootURL, NoReply, FALSE)
        /\ UNCHANGED <<rootURL, username, accounts, pendingCallbacks, settings,
                       replies, now>>

checkAndSignalForAccessToken ==
    LET hasToken == hasValidAccessToken
    IN  /\ out' = IF ~hasToken
                  THEN <<Event("authenticationRequired", EmptyURL, NoReply, EmptyToken)>>
                  ELSE <<>>
        /\ ret' = hasToken
        /\ lastOp' = Op("checkAndSignalForAccessToken", rootURL, NoReply, FALSE)
        /\ UNCHANGED <<rootURL, username, accounts, pendingCallbacks, settings,
                       replies, now>>

\* QNetworkAccessManager::get / post: a new reply object; url is what the
\* manager later reads with QNetworkReply::url(), which it does for token
\* requests only. root records the manager's root URL when a token request
\* was made, called whether a callback has been invoked for the reply.
NewReply(kind, url, root) ==
    [kind |-> kind, url |-> url, state |-> "issued", root |-> root,
     called |-> FALSE]

\* a switch that fires a request for every operation
FiresRequest_AnyVerb(operation) == TRUE

\* the switch on the operation: whether a request is fired
FiresRequest(operation) ==
    CASE operation = "GET" -> TRUE
      [] operation = "POST" -> TRUE
      [] OTHER -> FALSE

\* invokedRequest that raises the signal when there is no token, as
\* checkAndSignalForAccessToken does
invokedRequest_Signalling(path, operation, callbackParams) ==
    LET hasToken == hasValidAccessToken
        requestURL == SetPath(rootURL, path)
        token == MapValue(accounts, rootURL, DefaultAccountInfo).token
        fired == hasToken /\ FiresRequest(operation)
        networkReply == IF fired THEN NewReplyId ELSE NoReply
    IN  /\ fired => CanCreateReply
        /\ replies' = IF networkReply # NoReply
                      THEN MapInsert(replies, networkReply, NewReply("auth", EmptyURL, EmptyURL))
                      ELSE replies
        /\ pendingCallbacks' =
              IF networkReply # NoReply /\ ~IsEmpty(callbackParams)
              THEN MapInsert(pendingCallbacks, networkReply, callbackParams)
              ELSE pendingCallbacks
        /\ out' = IF networkReply # NoReply
                  THEN <<Event(operation, requestURL, networkReply, token)>>
                  ELSE IF ~hasToken
                       THEN <<Event("authenticationRequired", EmptyURL, NoReply,
                                    EmptyToken)>>
                       ELSE <<>>
        /\ lastOp' = Op("authenticatedRequest", rootURL, networkReply, hasToken)
        /\ ret' = FALSE
        /\ UNCHANGED <<rootURL, username, accounts, settings, now>>

\* invokedRequest that is content with a valid token of any account and
\* attaches that token
invokedRequest_AnyToken(path, operation, callbackParams) ==
    LET valid == { u \in DOMAIN accounts :
                     /\ accounts[u].token # EmptyToken
                     /\ ~IsExpired(accounts[u], now) }
        hasToken == valid # {}
        requestURL == SetPath(rootURL, path)
        token == IF hasToken
                 THEN accounts[CHOOSE u \in valid : TRUE].token
                 ELSE EmptyToken
        fired == hasToken /\ FiresRequest(operation)
        networkReply == IF fired THEN NewReplyId ELSE NoReply
    IN  /\ fired => CanCreateReply
        /\ replies' = IF networkReply # NoReply
                      THEN MapInsert(replies, networkReply, NewReply("auth", EmptyURL, EmptyURL))
                      ELSE replies
        /\ pendingCallbacks' =
              IF networkReply # NoReply /\ ~IsEmpty(callbackParams)
              THEN MapInsert(pendingCallbacks, networkReply, callbackParams)
              ELSE pendingCallbacks
        /\ out' = IF networkReply # NoReply
                  THEN <<Event(operation, requestURL, networkReply, token)>>
                  ELSE <<>>
        /\ lastOp' = Op("authenticatedRequest", rootURL, networkReply, hasToken)
        /\ ret' = FALSE
        /\ UNCHANGED <<rootURL, username, accounts, settings, now>>

\* authenticatedRequest invokes invokedRequest on the manager; with the caller
\* on the manager's thread (the single thread of control) the call is direct.
invokedRequest(path, operation, callbackParams) ==
    LET hasToken == hasValidAccessToken
        requestURL == SetPath(rootURL, path)
        token == MapValue(accounts, rootURL, DefaultAccountInfo).token
        fired == hasToken /\ FiresRequest(operation)
        networkReply == IF fired THEN NewReplyId ELSE NoReply
    IN  /\ fired => CanCreateReply
        /\ replies' = IF networkReply # NoReply
                      THEN MapInsert(replies, networkReply, NewReply("auth", EmptyURL, EmptyURL))
                      ELSE replies
        /\ pendingCallbacks' =
              IF networkReply # NoReply /\ ~IsEmpty(callbackParams)
              THEN MapInsert(pendingCallbacks, networkReply, callbackParams)
              ELSE pendingCallbacks
        /\ out' = IF networkReply # NoReply
                  THEN <<Event(operation, requestURL, networkReply, token)>>
                  ELSE <<>>
        /\ lastOp' = Op("authenticatedRequest", rootURL, networkReply, hasToken)
        /\ ret' = FALSE
        /\ UNCHANGED <<rootURL, username, accounts, settings, now>>

authenticatedRequest(path, operation, callbackParams) ==
    invokedRequest(path, operation, callbackParams)

\* finished() of an authenticated request's reply; after error() when it failed
passSuccessToCallback(requestReply) ==
    /\ requestReply \in ReplyIds
    /\ replies[requestReply].kind = "auth"
    /\ replies[requestReply].state \in { "issued", "errored" }
    /\ LET callbackParams ==
               MapValue(pendingCallbacks, requestReply, DefaultCallbackParams)
       IN  IF callbackParams.json
           THEN /\ out' = <<Event("jsonCallback", EmptyURL,
                                  requestReply, EmptyToken)>>
                /\ pendingCallbacks' = MapRemove(pendingCallbacks, requestReply)
           ELSE /\ out' = <<>>
                /\ UNCHANGED pendingCallbacks
    /\ replies' = MapRemove(replies, requestReply)
    /\ lastOp' = Op("passSuccessToCallback", EmptyURL, requestReply,
                    replies[requestReply].state = "issued")
    /\ ret' = FALSE
    /\ UNCHANGED <<rootURL, username, accounts, settings, now>>

\* error(code) of an authenticated request's reply
passErrorToCallback(requestReply) ==
    /\ requestReply \in ReplyIds
    /\ replies[requestReply].kind = "auth"
    /\ replies[requestReply].state = "issued"
    /\ LET callbackParams ==
               MapValue(pendingCallbacks, requestReply, DefaultCallbackParams)
       IN  IF callbackParams.error
           THEN /\ out' = <<Event("errorCallback", EmptyURL,
                                  requestReply, EmptyToken)>>
                /\ pendingCallbacks' = MapRemove(pendingCallbacks, requestReply)
           ELSE /\ out' = <<>>
                /\ UNCHANGED pendingCallbacks
    /\ replies' = [replies EXCEPT
                      ![requestReply].state = "errored",
                      ![requestReply].called =
                          MapValue(pendingCallbacks, requestReply,
                                   DefaultCallbackParams).error]
    /\ lastOp' = Op("passErrorToCallback", EmptyURL, requestReply, FALSE)
    /\ ret' = FALSE
    /\ UNCHANGED <<rootURL, username, accounts, settings, now>>

requestAccessToken ==
    LET grantURL == SetPath(rootURL, OAuthPath)
        requestReply == NewReplyId
    IN  /\ CanCreateReply
        /\ replies' = MapInsert(replies, requestReply, NewReply("token", grantURL, rootURL))
        /\ out' = <<Event("POST", grantURL, requestReply, EmptyToken)>>
        /\ lastOp' = Op("requestAccessToken", rootURL, requestReply, TRUE)
        /\ ret' = FALSE
        /\ UNCHANGED <<rootURL, username, accounts, pendingCallbacks, settings, now>>

\* IsTokenResponse that does not look for an error field
IsTokenResponse_IgnoresError(body) ==
    /\ "access_token" \in body.fields
    /\ "expires_in" \in body.fields
    /\ "token_type" \in body.fields

\* whether the body is a complete token response
IsTokenResponse(body) ==
    IF "error" \notin body.fields
    THEN IF \/ "access_token" \notin body.fields
            \/ "expires_in" \notin body.fields
            \/ "token_type" \notin body.fields
         THEN FALSE
         ELSE TRUE
    ELSE FALSE

\* the account stored under the manager's current root URL instead
ResponseRootURL_Current(url) == rootURL

\* the root URL a token response's account is stored under
ResponseRootURL(url) == SetPath(url, NoPath)

\* requestFinished that emits the signal before it stores the account
requestFinished_EmitsFirst(requestReply, body) ==
    /\ requestReply \in ReplyIds
    /\ replies[requestReply].kind = "token"
    /\ replies[requestReply].state \in { "issued", "errored" }
    /\ replies[requestReply].url.host = <<>> =>
           replies[requestReply].state = "errored" /\ body = EmptyBody
    /\ LET url == ResponseRootURL(replies[requestReply].url)
           freshAccountInfo == FreshAccountInfo(body, now)
           key == SettingsKey(url)
       IN  /\ IF IsTokenResponse(body)
              THEN /\ out' = <<Notification(url, requestReply, accounts,
                                            settings, key)>>
                   /\ accounts' = MapInsert(accounts, url, freshAccountInfo)
                   /\ settings' = MapInsert(settings, key,
                                            Serialize(freshAccountInfo))
              ELSE /\ out' = <<>>
                   /\ UNCHANGED <<accounts, settings>>
           /\ lastOp' = [Op("requestFinished", url, requestReply,
                             IsTokenResponse(body))
                           EXCEPT !.root = replies[requestReply].root]
    /\ replies' = MapRemove(replies, requestReply)
    /\ ret' = FALSE
    /\ UNCHANGED <<rootURL, username, pendingCallbacks, now>>

\* finished() of a token request's reply, with the body it read; a request to a
\* URL without a host fails in the network layer and has no body. On a complete
\* response the handler stores the account, then emits the signal, then writes
\* the settings: the signal is emitted between the two writes.
requestFinished(requestReply, body) ==
    /\ requestReply \in ReplyIds
    /\ replies[requestReply].kind = "token"
    /\ replies[requestReply].state \in { "issued", "errored" }
    /\ replies[requestReply].url.host = <<>> =>
           replies[requestReply].state = "errored" /\ body = EmptyBody
    /\ LET url == ResponseRootURL(replies[requestReply].url)
           freshAccountInfo == FreshAccountInfo(body, now)
           key == SettingsKey(url)
           stored == MapInsert(accounts, url, freshAccountInfo)
       IN  /\ IF IsTokenResponse(body)
              THEN /\ accounts' = stored
                   /\ out' = <<Notification(url, requestReply, stored,
                                            settings, key)>>
                   /\ settings' = MapInsert(settings, key,
                                            Serialize(freshAccountInfo))
              ELSE /\ out' = <<>>
                   /\ UNCHANGED <<accounts, settings>>
           /\ lastOp' = [Op("requestFinished", url, requestReply,
                             IsTokenResponse(body))
                           EXCEPT !.root = replies[requestReply].root]
    /\ replies' = MapRemove(replies, requestReply)
    /\ ret' = FALSE
    /\ UNCHANGED <<rootURL, username, pendingCallbacks, now>>

\* error(code) of a token request's reply
requestError(requestReply) ==
    /\ requestReply \in ReplyIds
    /\ replies[requestReply].kind = "token"
    /\ replies[requestReply].state = "issued"
    /\ replies' = [replies EXCEPT ![requestReply].state = "errored"]
    /\ out' = <<>>
    /\ lastOp' = Op("requestError", replies[requestReply].url, requestReply, FALSE)
    /\ ret' = FALSE
    /\ UNCHANGED <<rootURL, username, accounts, pendingCallbacks, settings, now>>

\* AccountManager::AccountManager(): the program is started again and the
\* new manager loads the accounts from the settings; the replies of the old
\* manager's QNetworkAccessManager went with it
AccountManager ==
    /\ rootURL' = EmptyURL
    /\ username' = <<>>
    /\ pendingCallbacks' = EmptyMap
    /\ accounts' = LoadAccounts(settings)
    /\ replies' = EmptyMap
    /\ lastOp' = Op("AccountManager", EmptyURL, NoReply, FALSE)
    /\ out' = <<>>
    /\ ret' = FALSE
    /\ UNCHANGED <<settings, now>>

\* time passes
Tick ==
    /\ now < MaxTime
    /\ now' = now + 1
    /\ out' = <<>>
    /\ lastOp' = Op("tick", EmptyURL, NoReply, FALSE)
    /\ ret' = FALSE
    /\ UNCHANGED <<rootURL, username, accounts, pendingCallbacks, settings, replies>>

Next ==
    \/ \E url \in RootURLs : setRootURL(url) /\ UNCHANGED permVars
    \/ \E name \in Usernames : setUsername(name) /\ UNCHANGED permVars
    \/ CallHasValidAccessToken /\ UNCHANGED permVars
    \/ checkAndSignalForAccessToken /\ UNCHANGED permVars
    \/ \E operation \in Operations, callbackParams \in CallbackSpecs :
          authenticatedRequest(RequestPath, operation, callbackParams)
          /\ UNCHANGED permVars
    \/ \E r \in 1 .. MaxReplies : passSuccessToCallback(r) /\ UNCHANGED permVars
    \/ \E r \in 1 .. MaxReplies : passErrorToCallback(r) /\ UNCHANGED permVars
    \/ requestAccessToken /\ UNCHANGED permVars
    \/ \E r \in 1 .. MaxReplies, body \in Bodies :
          requestFinished(r, body) /\ UNCHANGED permVars
    \/ \E r \in 1 .. MaxReplies : requestError(r) /\ UNCHANGED permVars
    \/ Tick /\ UNCHANGED permVars
    \/ AccountManager /\ UNCHANGED permVars

Spec == Init /\ [][Next]_vars

\* ------------------------------------------- persisting and reloading

\* a host whose name contains the word that stands for "//" in settings keys
HostSlashSlash == SlashSlashWord
\* the root URLs of the runs that persist and reload accounts
PersistRootURLs ==
    RootURLs \cup { [host |-> HostSlashSlash, path |-> NoPath] }

\* token requests, their responses and restarts of the program
PersistNext ==
    \/ \E url \in PersistRootURLs : setRootURL(url) /\ UNCHANGED permVars
    \/ requestAccessToken /\ UNCHANGED permVars
    \/ \E r \in 1 .. MaxReplies, body \in Bodies :
          requestFinished(r, body) /\ UNCHANGED permVars
    \/ \E r \in 1 .. MaxReplies : requestError(r) /\ UNCHANGED permVars
    \/ Tick /\ UNCHANGED permVars
    \/ AccountManager /\ UNCHANGED permVars

PersistSpec == Init /\ [][PersistNext]_vars

\* ------------------------------------------------ NodePermissions actions

\* a shared pointer is set to a newly constructed object
ConstructDefault(obj) ==
    /\ perms' = [perms EXCEPT ![obj] = NodePermissionsDefault(obj)]
    /\ permOp' = PermOp("NodePermissions", obj, obj)

ConstructNamed(obj, name) ==
    /\ perms' = [perms EXCEPT ![obj] = NodePermissionsNamed(name)]
    /\ permOp' = PermOp("NodePermissions", obj, obj)

ConstructFromMap(obj, map) ==
    /\ perms' = [perms EXCEPT ![obj] = NodePermissionsFromMap(map)]
    /\ permOp' = PermOp("NodePermissions", obj, obj)

SetAll(obj, value) ==
    /\ perms' = [perms EXCEPT ![obj] = setAll(perms[obj], value)]
    /\ permOp' = PermOp("setAll", obj, obj)

SetFlag(obj, flag, value) ==
    /\ perms' = [perms EXCEPT ![obj] = AssignFlag(perms[obj], flag, value)]
    /\ permOp' = PermOp("assign", obj, obj)

\* operator|=(NodePermissionsPointer& lhs, const NodePermissionsPointer& rhs)
\* on two pointers, which may hold the same object
Merge(lhs, rhs) ==
    /\ perms' = [perms EXCEPT ![lhs] = OrAssign(perms[lhs], perms[rhs])]
    /\ permOp' = PermOp("merge", lhs, rhs)

\* a call of toVariant(), the map it returns dropped
ToVariant(obj) ==
    /\ perms' = perms
    /\ permOp' = PermOp("toVariant", obj, obj)

\* dst is set to an object constructed from the map that src->toVariant()
\* returns
ConstructFromVariant(dst, src) ==
    /\ perms' = [perms EXCEPT
                    ![dst] = NodePermissionsFromMap(toVariant(perms[src]))]
    /\ permOp' = PermOp("fromVariant", dst, src)

PermNext ==
    \/ \E obj \in PermObjects : ConstructDefault(obj) /\ UNCHANGED amVars
    \/ \E obj \in PermObjects, name \in Names :
          ConstructNamed(obj, name) /\ UNCHANGED amVars
    \/ \E obj \in PermObjects, map \in PersistedMaps :
          ConstructFromMap(obj, map) /\ UNCHANGED amVars
    \/ \E obj \in PermObjects, value \in BOOLEAN :
          SetAll(obj, value) /\ UNCHANGED amVars
    \/ \E obj \in PermObjects, flag \in Flags, value \in BOOLEAN :
          SetFlag(obj, flag, value) /\ UNCHANGED amVars
    \/ \E lhs \in PermObjects, rhs \in PermObjects :
          Merge(lhs, rhs) /\ UNCHANGED amVars
    \/ \E obj \in PermObjects : ToVariant(obj) /\ UNCHANGED amVars
    \/ \E dst \in PermObjects, src \in PermObjects :
          ConstructFromVariant(dst, src) /\ UNCHANGED amVars

\* the permission objects alone, the account manager untouched
PermInit ==
    /\ PermissionsInit
    /\ AccountManagerInit
    /\ settings = EmptyMap

PermSpec == PermInit /\ [][PermNext]_vars


\* ------------------------------------------------------ claims, C1 to C10

\* the signals, callbacks and network sends of the step, by name
Raised(events, sig) == { i \in 1 .. Len(events) : events[i].sig = sig }
NetworkSends(events) ==
    { i \in 1 .. Len(events) : events[i].sig \in Operations }

\* the account stored for the current root URL, if any
HasEntry == rootURL \in DOMAIN accounts
EntryExpired == HasEntry /\ IsExpired(accounts[rootURL], now)
EntryEmpty == HasEntry /\ accounts[rootURL].token = EmptyToken

\* C1 (as claimed): a request sent with a non-empty callback spec gets an entry
\* in pendingCallbacks under its own reply, and once the finished handler
\* passSuccessToCallback, which runs last for every reply, has run for a
\* reply, no entry for that reply remains, whichever receivers the spec names.
C1_EntryRemovedOnCompletion ==
    [][ /\ ( lastOp'.op = "authenticatedRequest" /\ lastOp'.reply # NoReply )
           => \A operation \in Operations, callbackParams \in CallbackSpecs :
                 ( /\ ~IsEmpty(callbackParams)
                   /\ invokedRequest(RequestPath, operation, callbackParams) )
                 => /\ lastOp'.reply \in DOMAIN pendingCallbacks'
                    /\ lastOp'.reply \notin DOMAIN pendingCallbacks
        /\ lastOp'.op = "passSuccessToCallback"
              => lastOp'.reply \notin DOMAIN pendingCallbacks' ]_vars

\* C2: an authenticated request made while the current root URL has no account
\* entry, an empty token or an expired token sends nothing on the network and
\* leaves accounts, rootURL, username and pendingCallbacks (and the replies in
\* flight) as they were.
C2_NoTokenNoRequest ==
    [][ ( /\ lastOp'.op = "authenticatedRequest"
          /\ (~HasEntry \/ EntryEmpty \/ EntryExpired) )
        => /\ NetworkSends(out') = {}
           /\ replies' = replies
           /\ UNCHANGED <<accounts, rootURL, username, pendingCallbacks>> ]_vars

\* C2 witness: an authenticated request was made under a root URL whose stored
\* token has expired, and nothing was sent.
C2_Witness ==
    /\ lastOp.op = "authenticatedRequest"
    /\ HasEntry /\ ~EntryEmpty /\ EntryExpired
    /\ lastOp.reply = NoReply

\* C3 (as claimed): an authenticated request made while the token for the
\* current root URL is absent or expired raises "authentication required" and
\* is not sent.
C3_SignalRaisedOnMissingToken ==
    [][ ( /\ lastOp'.op = "authenticatedRequest"
          /\ (~HasEntry \/ EntryExpired) )
        => /\ Raised(out', "authenticationRequired") # {}
           /\ NetworkSends(out') = {} ]_vars

\* C3 (amended): such a request is not sent and raises nothing at all; the
\* "authentication required" signal is raised by checkAndSignalForAccessToken
\* and by no other operation.
C3_SilentOnMissingToken ==
    [][ /\ ( /\ lastOp'.op = "authenticatedRequest"
             /\ (~HasEntry \/ EntryExpired) )
           => out' = <<>> /\ DOMAIN replies' = DOMAIN replies
        /\ Raised(out', "authenticationRequired") # {}
           => lastOp'.op = "checkAndSignalForAccessToken" ]_vars

\* C3 witness: a request was attempted under a root URL with no stored account
\* and was dropped without any signal.
C3_Witness ==
    /\ lastOp.op = "authenticatedRequest"
    /\ rootURL # EmptyURL
    /\ ~HasEntry
    /\ out = <<>>

\* C4 (as claimed): when the successful response of a token request made under
\* root URL R is processed while the root URL is still R, the (non-empty)
\* token is stored under R, so that hasValidAccessToken() is true.
C4_TokenStoredUnderRequestRoot ==
    ( /\ lastOp.op = "requestFinished"
      /\ lastOp.ok
      /\ lastOp.root = rootURL
      /\ accounts[lastOp.url].token # EmptyToken )
    => hasValidAccessToken

\* the body of a successful token response
Successful(body) ==
    /\ "error" \notin body.fields
    /\ { "access_token", "token_type", "expires_in" } \subseteq body.fields
\* a URL with its path stripped
Stripped(url) == [host |-> url.host, path |-> <<>>]

\* C5: processing one successful token response stores exactly one account,
\* under the response's URL with the path stripped (whatever the current root
\* URL is), raises exactly one "token received" notification carrying that
\* URL, and adds or changes no other entry of accounts.
C5_OneEntryOneNotification ==
    [][ lastOp'.op = "requestFinished"
        => \A body \in Bodies :
              ( /\ Successful(body)
                /\ requestFinished(lastOp'.reply, body) )
              => LET u == Stripped(replies[lastOp'.reply].url)
                 IN  /\ DOMAIN accounts' = DOMAIN accounts \cup { u }
                     /\ accounts'[u].token = body.access_token
                     /\ accounts'[u].expiry = now + body.expires_in
                     /\ \A k \in DOMAIN accounts \ { u } : accounts'[k] = accounts[k]
                     /\ Cardinality(Raised(out', "receivedAccessToken")) = 1
                     /\ \A i \in Raised(out', "receivedAccessToken") :
                            out'[i].url = u ]_vars

\* C5 witness: a successful response was processed after the root URL had been
\* switched to another host; the account is stored under the response's host.
C5_Witness ==
    /\ lastOp.op = "requestFinished"
    /\ lastOp.ok
    /\ rootURL.host # lastOp.url.host
    /\ lastOp.url \in DOMAIN accounts
    /\ rootURL \notin DOMAIN accounts
    /\ Len(out) = 1

\* C6: a token response with an error field, or without one of access_token,
\* expires_in and token_type (the empty body of a network failure included),
\* leaves accounts and the settings unchanged, raises nothing and issues no
\* request; nor does the error handler of a token request.
C6_MalformedResponseDropped ==
    [][ LET dropped == /\ accounts' = accounts
                       /\ settings' = settings
                       /\ out' = <<>>
                       /\ DOMAIN replies' \subseteq DOMAIN replies
        IN  /\ lastOp'.op = "requestFinished"
               => \/ dropped
                  \/ \A body \in Bodies :
                        ( \/ "error" \in body.fields
                          \/ "access_token" \notin body.fields
                          \/ "expires_in" \notin body.fields
                          \/ "token_type" \notin body.fields )
                        => ~requestFinished(lastOp'.reply, body)
            /\ lastOp'.op = "requestError" => dropped ]_vars

\* C6 witness: a token response was dropped while an account was stored.
C6_Witness ==
    /\ lastOp.op = "requestFinished"
    /\ ~lastOp.ok
    /\ accounts # EmptyMap
    /\ out = <<>>

\* C7: hasValidAccessToken() is true exactly when accounts has an entry for the
\* current root URL whose token is not empty and has not expired, and a call
\* of it returns that value.
C7_ValidIffUsableEntry ==
    LET usable == /\ rootURL \in DOMAIN accounts
                  /\ accounts[rootURL].token # EmptyToken
                  /\ ~IsExpired(accounts[rootURL], now)
    IN  /\ hasValidAccessToken <=> usable
        /\ lastOp.op = "hasValidAccessToken" => (ret <=> usable)

\* C7 witness: hasValidAccessToken() was called on a stored, non-empty token
\* whose expiry has passed, and returned false.
C7_Witness ==
    /\ lastOp.op = "hasValidAccessToken"
    /\ HasEntry /\ ~EntryEmpty /\ EntryExpired
    /\ ret = FALSE

\* C8: setRootURL(u) with u different from the root URL sets the root URL to u
\* and clears the username; with u equal to the root URL it leaves both.
C8_SetRootURL ==
    [][ lastOp'.op = "setRootURL"
        => IF lastOp'.url # rootURL
           THEN rootURL' = lastOp'.url /\ username' = <<>>
           ELSE rootURL' = rootURL /\ username' = username ]_vars

\* C8 witness: setRootURL was called with the current root URL and the cached
\* username is still there.
C8_Witness ==
    /\ lastOp.op = "setRootURL"
    /\ lastOp.url = rootURL
    /\ username # <<>>

\* C9: checkAndSignalForAccessToken() returns the value of
\* hasValidAccessToken() in the state it is called in, raises "authentication
\* required" exactly once when that is false and raises nothing when it is
\* true, and changes no state of the manager.
C9_CheckAndSignal ==
    [][ lastOp'.op = "checkAndSignalForAccessToken"
        => /\ ret' = hasValidAccessToken
           /\ ret' => out' = <<>>
           /\ ~ret' => /\ Len(out') = 1
                       /\ out'[1].sig = "authenticationRequired"
           /\ UNCHANGED <<rootURL, username, accounts, pendingCallbacks,
                          settings, replies>> ]_vars

\* C9 witness: the check was made under a root URL whose token has expired; it
\* returned false and raised the signal once.
C9_Witness ==
    /\ lastOp.op = "checkAndSignalForAccessToken"
    /\ HasEntry /\ EntryExpired
    /\ ret = FALSE
    /\ Cardinality(Raised(out, "authenticationRequired")) = 1

\* C10: merging rhs into lhs leaves every flag of lhs the OR of the two inputs'
\* values, keeps the identifier of lhs and leaves rhs (and every other object)
\* as it was; so no flag of lhs goes from true to false, and merging the same
\* rhs again would change nothing.
C10_MergeIsOr ==
    [][ permOp'.op = "merge"
        => LET l == permOp'.lhs
               r == permOp'.rhs
           IN  /\ \A f \in Flags : perms'[l][f] <=> (perms[l][f] \/ perms[r][f])
               /\ perms'[l].id = perms[l].id
               /\ perms'[r] = perms[r]
               /\ \A o \in PermObjects \ { l } : perms'[o] = perms[o]
               /\ \A f \in Flags : perms[l][f] => perms'[l][f]
               /\ \A f \in Flags : (perms'[l][f] \/ perms'[r][f]) <=> perms'[l][f] ]_vars

\* C10 witness: two objects with different identifiers were merged, each
\* holding a flag the other lacked.
C10_Witness ==
    /\ permOp.op = "merge"
    /\ permOp.lhs # permOp.rhs
    /\ perms[permOp.lhs].id # perms[permOp.rhs].id
    /\ perms[permOp.lhs].canAdjustLocks /\ ~perms[permOp.rhs].canAdjustLocks
    /\ perms[permOp.rhs].canRezTemporaryEntities
    /\ ~perms[permOp.rhs].canConnectToDomain

\* ----------------------------------------------------- claims, C11 to C19

\* C11: every authenticated request that is sent goes to the root URL current
\* at dispatch with the given path, and carries the token that accounts holds
\* for that root URL, which is non-empty and unexpired at dispatch; the token
\* of another root URL is never attached.
C11_RequestCarriesRootToken ==
    [][ ( lastOp'.op = "authenticatedRequest" /\ lastOp'.reply # NoReply )
        => /\ HasEntry /\ ~EntryEmpty /\ ~EntryExpired
           /\ Len(out') = 1
           /\ out'[1].sig \in { "GET", "POST" }
           /\ out'[1].url = SetPath(rootURL, RequestPath)
           /\ out'[1].token = accounts[rootURL].token ]_vars

\* C11 witness: a request was sent to host b with b's token while accounts
\* also held a valid, different token for host a.
C11_Witness ==
    LET a == [host |-> HostA, path |-> NoPath]
        b == [host |-> HostB, path |-> NoPath]
    IN  /\ lastOp.op = "authenticatedRequest"
        /\ lastOp.reply # NoReply
        /\ rootURL = b
        /\ { a, b } \subseteq DOMAIN accounts
        /\ accounts[a].token # EmptyToken
        /\ ~IsExpired(accounts[a], now)
        /\ accounts[a].token # accounts[b].token
        /\ Len(out) = 1
        /\ out[1].url.host = HostB
        /\ out[1].token = accounts[b].token

\* C12: with a valid token, authenticatedRequest sends exactly one request,
\* of that verb, when the verb is GET or POST and none for another verb; an
\* entry (the callback spec, under the new reply) is added to
\* pendingCallbacks exactly when a request was sent and the spec is not
\* empty, so that an unsupported verb leaves pendingCallbacks as it was.
C12_GetAndPostOnly ==
    [][ ( lastOp'.op = "authenticatedRequest" /\ hasValidAccessToken )
        => \A operation \in Operations, callbackParams \in CallbackSpecs :
              invokedRequest(RequestPath, operation, callbackParams)
              => LET sent == operation \in { "GET", "POST" }
                 IN  /\ Cardinality(NetworkSends(out')) = IF sent THEN 1 ELSE 0
                     /\ \A i \in NetworkSends(out') : out'[i].sig = operation
                     /\ sent <=> lastOp'.reply # NoReply
                     /\ IF sent /\ ~IsEmpty(callbackParams)
                        THEN /\ lastOp'.reply \notin DOMAIN pendingCallbacks
                             /\ pendingCallbacks' =
                                   MapInsert(pendingCallbacks, lastOp'.reply,
                                             callbackParams)
                        ELSE pendingCallbacks' = pendingCallbacks ]_vars

\* C12 witness: a request with an unsupported verb was made with a valid
\* token; nothing was sent and no entry is pending.
C12_Witness ==
    /\ lastOp.op = "authenticatedRequest"
    /\ lastOp.ok
    /\ hasValidAccessToken
    /\ lastOp.reply = NoReply
    /\ out = <<>>
    /\ pendingCallbacks = EmptyMap

\* C13 (as claimed): a sent authenticated request ends as succeeded or as
\* failed, and over its lifetime at most one callback is invoked for it: the
\* success receiver only when it succeeded, the error receiver only when it
\* failed, never both; and no completion makes the manager send a request.
C13_OneMatchingCallback ==
    [][ /\ lastOp'.op = "passErrorToCallback"
           => /\ Raised(out', "jsonCallback") = {}
              /\ Len(out') <= 1
        /\ lastOp'.op = "passSuccessToCallback"
           => LET r == lastOp'.reply
              IN  /\ Raised(out', "errorCallback") = {}
                  /\ Len(out') <= 1
                  /\ replies[r].called => out' = <<>>
                  /\ replies[r].state = "errored" => out' = <<>>
        /\ lastOp'.op \in { "passErrorToCallback", "passSuccessToCallback",
                            "requestFinished", "requestError" }
           => /\ NetworkSends(out') = {}
              /\ DOMAIN replies' \subseteq DOMAIN replies ]_vars

\* C14: a successful token response stores the account, then raises the
\* notification, then persists the account: when the notification is raised
\* accounts already holds the new entry for the notified URL while the
\* settings are still those from before the response, and when the handler
\* has finished the settings hold the same account under the key of the URL.
C14_StoreNotifyPersist ==
    [][ ( lastOp'.op = "requestFinished" /\ lastOp'.ok )
        => LET u == lastOp'.url
               key == SettingsKey(u)
           IN  /\ Raised(out', "receivedAccessToken") # {}
               /\ \A i \in Raised(out', "receivedAccessToken") :
                     /\ out'[i].url = u
                     /\ out'[i].seen.held = accounts'[u]
                     /\ out'[i].seen.saved = MapValue(settings, key, NoValue)
               /\ key \in DOMAIN settings'
               /\ Deserialize(settings'[key]) = accounts'[u]
               /\ accounts'[u].expiry = now + 1 ]_vars

\* C14 witness: a response for a host without a persisted account was
\* processed: the receiver of the notification found the new account in
\* accounts and nothing yet in the settings, which now hold it.
C14_Witness ==
    /\ lastOp.op = "requestFinished"
    /\ lastOp.ok
    /\ lastOp.url.host = HostB
    /\ Len(out) = 1
    /\ out[1].seen.held = accounts[lastOp.url]
    /\ out[1].seen.held.token # EmptyToken
    /\ out[1].seen.saved = NoValue
    /\ Deserialize(settings[SettingsKey(lastOp.url)]) = accounts[lastOp.url]

\* C15: accounts holds exactly the entries loaded from the settings at
\* construction and those stored by successful token responses: a newly
\* constructed manager holds one entry for each URL the settings have a key
\* for; a successful response adds or replaces the one entry of its URL with
\* the account of that response; no other step (hasValidAccessToken,
\* checkAndSignalForAccessToken and authenticatedRequest among them) adds,
\* changes or removes an entry.
C15_AccountsHistory ==
    /\ DOMAIN accounts = { KeyURL(k) : k \in DOMAIN settings }
    /\ [][ /\ lastOp'.op = "AccountManager"
              => /\ DOMAIN accounts' = { KeyURL(k) : k \in DOMAIN settings }
                 /\ \A k \in DOMAIN settings :
                       accounts'[KeyURL(k)] = Deserialize(settings[k])
           /\ ( lastOp'.op = "requestFinished" /\ lastOp'.ok )
              => \A body \in Bodies :
                    ( requestFinished(lastOp'.reply, body)
                      => LET u == Stripped(replies[lastOp'.reply].url)
                         IN  /\ DOMAIN accounts' = DOMAIN accounts \cup { u }
                             /\ accounts'[u] =
                                   [token |-> body.access_token,
                                    expiry |-> now + body.expires_in]
                             /\ \A k \in DOMAIN accounts \ { u } :
                                   accounts'[k] = accounts[k] )
           /\ ( /\ lastOp'.op # "AccountManager"
                /\ ~(lastOp'.op = "requestFinished" /\ lastOp'.ok) )
              => accounts' = accounts ]_vars

\* C15 witness: a successful response replaced the account that was stored
\* (and persisted) for its URL by a different one.
C15_Witness ==
    /\ lastOp.op = "requestFinished"
    /\ lastOp.ok
    /\ Len(out) = 1
    /\ out[1].seen.saved # NoValue
    /\ Deserialize(out[1].seen.saved) # accounts[lastOp.url]
    /\ Cardinality(DOMAIN accounts) = 2

\* the key of the persisted map that carries a flag
KeyOfFlag(flag) ==
    CASE flag = "canConnectToDomain" -> "id_can_connect"
      [] flag = "canAdjustLocks" -> "id_can_adjust_locks"
      [] flag = "canRezPermanentEntities" -> "id_can_rez"
      [] flag = "canRezTemporaryEntities" -> "id_can_rez_tmp"
      [] flag = "canWriteToAssetServer" -> "id_can_write_to_asset_server"
      [] flag = "canConnectPastMaxCapacity" -> "id_can_connect_past_max_capacity"

\* C16: a permission set constructed from the map that toVariant returns for
\* a permission set has the same identifier and the same six flags; the map
\* has the seven keys, permissions_id carrying the identifier and each flag
\* carried by its own key.
C16_VariantRoundTrip ==
    [][ permOp'.op = "fromVariant"
        => LET p == perms[permOp'.rhs]
               q == perms'[permOp'.lhs]
               map == toVariant(p)
           IN  /\ getID(q) = getID(p)
               /\ \A flag \in Flags : q[flag] = p[flag]
               /\ DOMAIN map = { "permissions_id" } \cup
                                 { KeyOfFlag(flag) : flag \in Flags }
               /\ map["permissions_id"] = getID(p)
               /\ \A flag \in Flags : map[KeyOfFlag(flag)] = p[flag]
               /\ Cardinality({ KeyOfFlag(flag) : flag \in Flags }) = 6 ]_vars

\* C16 witness: an object was rebuilt from the map of another, named object
\* whose flags are not all alike, and equals it.
C16_Witness ==
    /\ permOp.op = "fromVariant"
    /\ permOp.lhs # permOp.rhs
    /\ perms[permOp.lhs] = perms[permOp.rhs]
    /\ perms[permOp.rhs].id = "localhost"
    /\ perms[permOp.rhs].canRezPermanentEntities
    /\ ~perms[permOp.rhs].canRezTemporaryEntities
    /\ ~perms[permOp.rhs].canConnectToDomain

\* C17: setAll, the flag assignments, merge and toVariant leave the
\* identifier of every permission set as the constructor fixed it; setAll(v)
\* sets the six flags of its object to v and changes nothing else, and
\* toVariant changes nothing.
C17_IdImmutable ==
    [][ /\ permOp'.op \in { "setAll", "assign", "merge", "toVariant" }
           => \A obj \in PermObjects : getID(perms'[obj]) = getID(perms[obj])
        /\ permOp'.op = "setAll"
           => \A value \in BOOLEAN :
                 ( SetAll(permOp'.lhs, value)
                   => /\ \A flag \in Flags : perms'[permOp'.lhs][flag] = value
                      /\ \A obj \in PermObjects \ { permOp'.lhs } :
                            perms'[obj] = perms[obj] )
        /\ permOp'.op = "toVariant" => perms' = perms ]_vars

\* C17 witness: setAll(true) was called on a named object whose flags
\* differed before; the name is still its identifier.
C17_Witness ==
    /\ permOp.op = "setAll"
    /\ getID(perms[permOp.lhs]) = "localhost"
    /\ \A flag \in Flags : perms[permOp.lhs][flag]
    /\ \E obj \in PermObjects : getID(perms[obj]) # "localhost"

\* C18 (as claimed): the settings key of every URL that accounts has an entry
\* for is mapped back to that URL by the constructor, distinct URLs have
\* distinct keys, and a manager constructed from the settings holds exactly
\* the accounts that the manager before it held.
C18_ReloadRoundTrip ==
    [][ lastOp'.op = "AccountManager"
        => /\ \A u \in DOMAIN accounts : KeyURL(SettingsKey(u)) = u
           /\ \A u, v \in DOMAIN accounts :
                 u # v => SettingsKey(u) # SettingsKey(v)
           /\ accounts' = accounts ]_vars

====
